---- MODULE Spec2Model ----
(***************************************************************************)
(* AntiGraph (src/subclass/antigraph.ipynb): a graph class that stores the *)
(* edges that do NOT exist in a dense graph and reports neighbors,         *)
(* adjacency and degree as if it were the dense graph.                     *)
(*                                                                         *)
(* The store is the networkx adjacency dict `adj` (node -> stored          *)
(* neighbours) together with its iteration order `order`.  The queries are *)
(* __getitem__, neighbors, degree and adjacency; lazy results (iterators   *)
(* and generators) are modelled as explicit cursor objects that are        *)
(* stepped one element at a time.                                          *)
(***************************************************************************)
EXTENDS Integers, Sequences, FiniteSets, TLC

VARIABLES
    order,          \* iteration order of self.adj (a sequence of the nodes)
    adj,            \* self.adj: node -> set of stored neighbours (non-edges)
    G,              \* the explicit dense graph the store was built from, or <<>>
    all_edge_dict,  \* AntiGraph.all_edge_dict, the record shared by all edges
    last,           \* outcome of the most recent complete query
    iters,          \* live lazy sequences handed out to callers
    cc              \* state of a connected_components traversal

vars == <<order, adj, G, all_edge_dict, last, iters, cc>>

(***************************************************************************)
(* Bounds                                                                  *)
(***************************************************************************)
MaxNodes == 3      \* size of the largest node universe
MaxEntries == 2    \* stored directed entries of a hand-built (raw) store
MaxReq == 2        \* length of the longest explicit nbunch sequence
MaxNonEdges == 1   \* missing edges of the dense graphs used for lazy sequences

\* Node identifiers a caller may name; MaxNodes itself is never a store node.
Ids == 0 .. MaxNodes

NoWeight == "<None>"
WeightKeys == {NoWeight, "weight", "other"}

(***************************************************************************)
(* Generic helpers                                                         *)
(***************************************************************************)
SeqToSet(s) == {s[i] : i \in DOMAIN s}

IsInjective(s) == \A i, j \in DOMAIN s : s[i] = s[j] => i = j

InjSeqs(S, n) == UNION {{s \in [1 .. k -> S] : IsInjective(s)} : k \in 0 .. n}

Reverse(s) == [i \in DOMAIN s |-> s[Len(s) + 1 - i]]

RECURSIVE SumSeq(_)
SumSeq(s) == IF s = <<>> THEN 0 ELSE Head(s) + SumSeq(Tail(s))

RECURSIVE SumOver(_, _)
\* sum(f[x] for x in S)
SumOver(f, S) ==
    IF S = {} THEN 0
    ELSE LET x == CHOOSE y \in S : TRUE IN f[x] + SumOver(f, S \ {x})

IsPrefix(s, t) == Len(s) <= Len(t) /\ \A i \in DOMAIN s : s[i] = t[i]

(***************************************************************************)
(* Arguments and outcomes                                                  *)
(***************************************************************************)
\* The nbunch argument of degree: None, a single (hashable, non-iterable)
\* node identifier, or a list of node identifiers.
NoneNb == [t |-> "None", n |-> 0, s |-> <<>>]
NodeNb(i) == [t |-> "node", n |-> i, s |-> <<>>]
SeqNb(q) == [t |-> "seq", n |-> 0, s |-> q]

Nbunches == {NoneNb} \cup {NodeNb(i) : i \in Ids}
                     \cup {SeqNb(q) : q \in InjSeqs(Ids, MaxReq)}

\* What a call does: raise an exception, or return a value of some kind.
Raise(e) == [raised |-> e, ret |-> "-", val |-> 0]
Return(kind, v) == [raised |-> "none", ret |-> kind, val |-> v]

(***************************************************************************)
(* The class attribute and dict.get                                        *)
(***************************************************************************)
\* all_edge_dict = {'weight': 1}
AllEdgeDict == [weight |-> 1]

\* faulty variant: a missing key counts 0 instead of the default
GetDefaultZero(d, key, default) == IF key \in DOMAIN d THEN d[key] ELSE 0

\* d.get(key, default)
Get(d, key, default) == IF key \in DOMAIN d THEN d[key] ELSE default

\* x in self  (Graph.__contains__): membership of a node in the store.  A list
\* is unhashable, None is never a node: both are "not in self".
Contains(nb) == nb.t = "node" /\ nb.n \in DOMAIN adj

(***************************************************************************)
(* AntiGraph.__getitem__                                                   *)
(***************************************************************************)
\* faulty variant: the inherited lookup, returning the stored (non-edge) set
getitemStored(n) ==
    IF n \in DOMAIN adj
    THEN Return("dict", [node \in adj[n] |-> all_edge_dict])
    ELSE Raise("KeyError")

\* faulty variant: the stored set is not subtracted
getitemNoDiff(n) ==
    IF n \in DOMAIN adj
    THEN Return("dict", [node \in DOMAIN adj \ {n} |-> all_edge_dict])
    ELSE Raise("KeyError")

\* self.adj[n] raises KeyError for an unknown n; nothing catches it.
getitem(n) ==
    IF n \in DOMAIN adj
    THEN Return("dict", [node \in (DOMAIN adj \ adj[n]) \ {n} |-> all_edge_dict])
    ELSE Raise("KeyError")

(***************************************************************************)
(* Lazy sequences.  A cursor is one record shape for the three kinds:      *)
(*   "setiter"   iter(set): rest = elements not yet produced               *)
(*   "degree"    d_iter over nodes_nbrs: pending = nodes not yet pulled    *)
(*   "adjacency" the adjacency generator: pending = nodes not yet visited  *)
(* req is the sequence the cursor was created over.                        *)
(***************************************************************************)
Cursor(kind, branch, pending, rest, iterable, weight) ==
    [kind |-> kind, branch |-> branch, req |-> pending, pending |-> pending,
     rest |-> rest, iterable |-> iterable, weight |-> weight, done |-> FALSE]

Finished(g) == [g EXCEPT !.done = TRUE, !.pending = <<>>, !.rest = {}]

(***************************************************************************)
(* AntiGraph.neighbors                                                     *)
(***************************************************************************)
\* faulty variant: an unknown node is answered like an isolated one
neighborsEmptyForUnknown(n) ==
    IF n \in DOMAIN adj
    THEN Return("iter", Cursor("setiter", "-", <<>>,
                               (DOMAIN adj \ adj[n]) \ {n}, TRUE, NoWeight))
    ELSE Return("iter", Cursor("setiter", "-", <<>>, {}, TRUE, NoWeight))

\* faulty variant: set([n]) is not subtracted
neighborsKeepSelf(n) ==
    IF n \in DOMAIN adj
    THEN Return("iter", Cursor("setiter", "-", <<>>,
                               DOMAIN adj \ adj[n], TRUE, NoWeight))
    ELSE Raise("NetworkXError")

\* The set is built inside the try block, so the KeyError of self.adj[n] is
\* turned into NetworkXError at the call.
neighbors(n) ==
    IF n \in DOMAIN adj
    THEN Return("iter", Cursor("setiter", "-", <<>>,
                               (DOMAIN adj \ adj[n]) \ {n}, TRUE, NoWeight))
    ELSE Raise("NetworkXError")

(***************************************************************************)
(* AntiGraph.degree                                                        *)
(***************************************************************************)
\* faulty variant: set([nbunch]) is not subtracted
nbrsSingleKeepSelf(n) == [v \in DOMAIN adj \ adj[n] |-> all_edge_dict]

\* nbrs of the single-node branch
nbrsSingle(n) == [v \in (DOMAIN adj \ adj[n]) \ {n} |-> all_edge_dict]

\* faulty variant: set([n]) is not subtracted
nbrsAllKeepSelf(n) == [v \in DOMAIN adj \ adj[n] |-> all_edge_dict]

\* nbrs of the nbunch-is-None branch: universe is set(self.adj)
nbrsAll(n) == [v \in (DOMAIN adj \ adj[n]) \ {n} |-> all_edge_dict]

\* faulty variant: the universe is the requested list, not the store
nbrsBunchWithin(n, req) == [v \in (SeqToSet(req) \ adj[n]) \ {n} |-> all_edge_dict]

\* nbrs of the explicit-nbunch branch: universe is set(self.nodes()), the
\* whole store, whatever nbunch (req) was passed
nbrsBunch(n, req) == [v \in (SeqToSet(order) \ adj[n]) \ {n} |-> all_edge_dict]

\* len(nbrs) + (n in nbrs)
degUnweighted(n, nbrs) ==
    Cardinality(DOMAIN nbrs) + (IF n \in DOMAIN nbrs THEN 1 ELSE 0)

\* sum(nbrs[nbr].get(weight, 1) for nbr in nbrs) + (n in nbrs and nbrs[n].get(weight, 1))
degWeighted(n, nbrs, weight) ==
    SumOver([nbr \in DOMAIN nbrs |-> Get(nbrs[nbr], weight, 1)], DOMAIN nbrs)
    + (IF n \in DOMAIN nbrs THEN Get(nbrs[n], weight, 1) ELSE 0)

degOf(n, nbrs, weight) ==
    IF weight = NoWeight THEN degUnweighted(n, nbrs) ELSE degWeighted(n, nbrs, weight)

\* faulty variant: unknown nodes are rejected at the call
degreeEagerCheck(nbunch, weight) ==
    IF Contains(nbunch)
    THEN Return("int", degOf(nbunch.n, nbrsSingle(nbunch.n), weight))
    ELSE IF nbunch.t = "None"
    THEN Return("gen", Cursor("degree", "all", order, {}, TRUE, weight))
    ELSE IF nbunch.t = "node" \/ \E i \in DOMAIN nbunch.s : nbunch.s[i] \notin DOMAIN adj
    THEN Raise("NetworkXError")
    ELSE Return("gen", Cursor("degree", "bunch", nbunch.s, {}, TRUE, weight))

\* degree(nbunch, weight): an integer for a node of the store; otherwise the
\* generator d_iter() over nodes_nbrs.  The outermost iterable of nodes_nbrs
\* (self.nodes() or self.nbunch_iter(nbunch)) is created at the call; nothing
\* is pulled from it before the first next().
degree(nbunch, weight) ==
    IF Contains(nbunch)
    THEN Return("int", degOf(nbunch.n, nbrsSingle(nbunch.n), weight))
    ELSE IF nbunch.t = "None"
    THEN Return("gen", Cursor("degree", "all", order, {}, TRUE, weight))
    ELSE Return("gen", Cursor("degree", "bunch", nbunch.s, {},
                              nbunch.t = "seq", weight))

RECURSIVE bunch_iter(_)
\* Graph.nbunch_iter's inner generator: "for n in nlist: if n in adj: yield n";
\* the nodes of nlist that are not in the store are skipped.
bunch_iter(nlist) ==
    IF nlist = <<>> THEN nlist
    ELSE IF Head(nlist) \in DOMAIN adj THEN nlist
    ELSE bunch_iter(Tail(nlist))

(***************************************************************************)
(* AntiGraph.adjacency                                                     *)
(***************************************************************************)
\* faulty variant: the generator starts after the first node
adjacencySkipFirst == Return("gen", Cursor("adjacency", "-", Tail(order), {}, TRUE, NoWeight))

\* a generator function: the body runs on next(), "for n in self.adj"
adjacency == Return("gen", Cursor("adjacency", "-", order, {}, TRUE, NoWeight))

(***************************************************************************)
(* next(g): the set of possible steps [out, item, g] of a cursor.  A set   *)
(* iterator may produce its elements in any order; generators are          *)
(* deterministic.                                                          *)
(***************************************************************************)
Step(out, item, g) == [out |-> out, item |-> item, g |-> g]

gnext(g) ==
    IF g.done THEN {Step("StopIteration", 0, g)}
    ELSE IF g.kind = "setiter" THEN
        IF g.rest = {} THEN {Step("StopIteration", 0, Finished(g))}
        ELSE {Step("item", x, [g EXCEPT !.rest = @ \ {x}]) : x \in g.rest}
    ELSE IF g.kind = "adjacency" THEN
        IF g.pending = <<>> THEN {Step("StopIteration", 0, Finished(g))}
        ELSE LET n == Head(g.pending) IN
             {Step("item", <<n, (DOMAIN adj \ adj[n]) \ {n}>>,
                   [g EXCEPT !.pending = Tail(@)])}
    ELSE IF g.branch = "all" THEN
        IF g.pending = <<>> THEN {Step("StopIteration", 0, Finished(g))}
        ELSE LET n == Head(g.pending) IN
             {Step("item", <<n, degOf(n, nbrsAll(n), g.weight)>>,
                   [g EXCEPT !.pending = Tail(@)])}
    ELSE IF ~g.iterable THEN
        \* "for n in nlist" over a non-iterable: TypeError, re-raised by
        \* nbunch_iter as NetworkXError; a generator that raised is finished
        {Step("NetworkXError", 0, Finished(g))}
    ELSE LET p == bunch_iter(g.pending) IN
        IF p = <<>> THEN {Step("StopIteration", 0, Finished(g))}
        ELSE LET n == Head(p) IN
             {Step("item", <<n, degOf(n, nbrsBunch(n, g.req), g.weight)>>,
                   [g EXCEPT !.pending = Tail(p)])}

RECURSIVE Drains(_)
\* list(g), or a loop over g: every way of consuming g to its end, as
\* [items, end] with end the exception that stopped the loop.
Drains(g) ==
    UNION {IF st.out = "item"
           THEN {[items |-> <<st.item>> \o d.items, end |-> d.end] : d \in Drains(st.g)}
           ELSE {[items |-> <<>>, end |-> st.out]}
           : st \in gnext(g)}

(***************************************************************************)
(* Stores.  nx.complement(G) has an edge n - n2 exactly when n2 is not a   *)
(* neighbour of n in G and n # n2; AntiGraph(nx.complement(G)) copies it.  *)
(***************************************************************************)
complement(g) == [n \in DOMAIN g |-> {n2 \in DOMAIN g : n2 \notin g[n] /\ n # n2}]

\* Undirected graphs over V as adjacency maps; a self-loop is n \in g[n].
UPairs(V) == {{a, b} : a, b \in V}
Graphs(V) == {[n \in V |-> {m \in V : {n, m} \in E}] : E \in SUBSET UPairs(V)}

IsSimple(g) == \A n \in DOMAIN g : n \notin g[n]

\* Hand-built stores: any directed entries, symmetric or not, a node may
\* list itself.
RawStores(V) ==
    {[n \in V |-> {m \in V : <<n, m>> \in E}] :
        E \in {X \in SUBSET (V \X V) : Cardinality(X) <= MaxEntries}}

Ascending(k) == [i \in 1 .. k |-> i - 1]
Orders(k) == {Ascending(k), Reverse(Ascending(k))}

NoQuery == [op |-> "init", nb |-> NoneNb, w |-> NoWeight, raised |-> "none",
            ret |-> "-", val |-> 0, items |-> <<>>, end |-> "-"]

Callers == {"a", "b"}
NoIter == [op |-> "none", nb |-> NoneNb, w |-> NoWeight,
           g |-> Finished(Cursor("none", "-", <<>>, {}, TRUE, NoWeight)),
           out |-> <<>>, end |-> "-"]

CCStart(o) == [pc |-> "outer", todo |-> o, seen |-> {}, comps |-> <<>>,
               bseen |-> {}, thislevel |-> {}, nextlevel |-> {}]

InitRest ==
    /\ all_edge_dict = AllEdgeDict
    /\ last = NoQuery
    /\ iters = [c \in Callers |-> NoIter]
    /\ cc = CCStart(order)

\* A = AntiGraph(nx.complement(G)) for an explicit dense graph G
InitDense ==
    /\ \E k \in 1 .. MaxNodes :
         /\ order \in Orders(k)
         /\ G \in Graphs(0 .. k - 1)
    /\ adj = complement(G)
    /\ InitRest

\* a store filled in directly; no dense graph exists
InitStore ==
    /\ \E k \in 1 .. MaxNodes :
         /\ order \in Orders(k)
         /\ adj \in RawStores(0 .. k - 1)
    /\ G = <<>>
    /\ InitRest

(***************************************************************************)
(* Complete queries: the call, and for a lazy result its full consumption  *)
(* (list(...), sum(... for ...)), recorded in last.  The caller looks at   *)
(* one outcome at a time: a query is made when no outcome is held, and     *)
(* Forget drops the held outcome.                                          *)
(***************************************************************************)
Query(op, nb, w, res) ==
    /\ last.op = "init"
    /\ IF res.ret \in {"iter", "gen"}
       THEN \E d \in Drains(res.val) :
            last' = [op |-> op, nb |-> nb, w |-> w, raised |-> res.raised,
                     ret |-> res.ret, val |-> 0, items |-> d.items, end |-> d.end]
       ELSE last' = [op |-> op, nb |-> nb, w |-> w, raised |-> res.raised,
                     ret |-> res.ret, val |-> res.val, items |-> <<>>, end |-> "-"]

CallGetitem ==
    /\ \E n \in Ids : Query("getitem", NodeNb(n), NoWeight, getitem(n))
    /\ UNCHANGED <<order, adj, G, all_edge_dict, iters, cc>>

CallNeighbors ==
    /\ \E n \in Ids : Query("neighbors", NodeNb(n), NoWeight, neighbors(n))
    /\ UNCHANGED <<order, adj, G, all_edge_dict, iters, cc>>

CallDegree ==
    /\ \E nb \in Nbunches, w \in WeightKeys : Query("degree", nb, w, degree(nb, w))
    /\ UNCHANGED <<order, adj, G, all_edge_dict, iters, cc>>

CallAdjacency ==
    /\ Query("adjacency", NoneNb, NoWeight, adjacency)
    /\ UNCHANGED <<order, adj, G, all_edge_dict, iters, cc>>

Forget ==
    /\ last.op # "init"
    /\ last' = NoQuery
    /\ UNCHANGED <<order, adj, G, all_edge_dict, iters, cc>>

Next == CallDegree \/ CallGetitem \/ CallNeighbors \/ CallAdjacency \/ Forget

\* queries on a complement store built from an explicit dense graph
SpecDense == InitDense /\ [][Next]_vars

\* queries on an arbitrary store
Spec == InitStore /\ [][Next]_vars

(***************************************************************************)
(* Lazy sequences held by callers.  Each caller holds at most one lazy     *)
(* sequence at a time, obtained from neighbors, bulk degree or adjacency,  *)
(* pulls elements from it one next() at a time, and may drop it and call   *)
(* again.  The two callers interleave freely.                              *)
(***************************************************************************)
\* explicit node lists as the notebook builds them: list(G.nodes())[i:j]
Slices == {SubSeq(order, i, j) : i \in 1 .. Len(order) + 1, j \in 0 .. Len(order)}
LazyNbunches == {NoneNb} \cup {SeqNb(q) : q \in Slices}
\* the two forms the notebook consumes: degree() and degree(weight='weight')
LazyWeights == {NoWeight, "weight"}

Hold(c, op, nb, w, res) ==
    /\ iters[c].op = "none"
    /\ res.ret \in {"iter", "gen"}
    /\ iters' = [iters EXCEPT ![c] = [op |-> op, nb |-> nb, w |-> w, g |-> res.val,
                                      out |-> <<>>, end |-> "-"]]

OpenNeighbors(c) ==
    /\ \E n \in Ids : Hold(c, "neighbors", NodeNb(n), NoWeight, neighbors(n))
    /\ UNCHANGED <<order, adj, G, all_edge_dict, last, cc>>

OpenDegree(c) ==
    /\ \E nb \in LazyNbunches, w \in LazyWeights : Hold(c, "degree", nb, w, degree(nb, w))
    /\ UNCHANGED <<order, adj, G, all_edge_dict, last, cc>>

OpenAdjacency(c) ==
    /\ Hold(c, "adjacency", NoneNb, NoWeight, adjacency)
    /\ UNCHANGED <<order, adj, G, all_edge_dict, last, cc>>

\* next(it) by caller c
Consume(c) ==
    /\ iters[c].op # "none"
    /\ iters[c].end = "-"
    /\ \E st \in gnext(iters[c].g) :
         iters' = [iters EXCEPT ![c] =
                     [@ EXCEPT !.g = st.g,
                               !.out = IF st.out = "item" THEN Append(@, st.item) ELSE @,
                               !.end = IF st.out = "item" THEN @ ELSE st.out]]
    /\ UNCHANGED <<order, adj, G, all_edge_dict, last, cc>>

\* the caller lets go of its lazy sequence, consumed or not
Drop(c) ==
    /\ iters[c].op # "none"
    /\ iters' = [iters EXCEPT ![c] = NoIter]
    /\ UNCHANGED <<order, adj, G, all_edge_dict, last, cc>>

InitLazy ==
    /\ order \in Orders(MaxNodes)
    /\ G \in {g \in Graphs(0 .. MaxNodes - 1) :
                 /\ IsSimple(g)
                 /\ SumOver([n \in DOMAIN g |-> Cardinality(complement(g)[n])], DOMAIN g)
                        <= MaxNonEdges + MaxNonEdges}
    /\ adj = complement(G)
    /\ InitRest

NextLazy ==
    \E c \in Callers :
        OpenNeighbors(c) \/ OpenDegree(c) \/ OpenAdjacency(c) \/ Consume(c) \/ Drop(c)

SpecLazy == InitLazy /\ [][NextLazy]_vars

(***************************************************************************)
(* nx.connected_components(A), as the notebook runs it on the view:        *)
(*     seen = set()                                                        *)
(*     for v in G:                                                         *)
(*         if v not in seen:                                               *)
(*             c = set(_plain_bfs(G, v)); yield c; seen.update(c)          *)
(* with _plain_bfs(G, source):                                             *)
(*     seen = set(); nextlevel = {source}                                  *)
(*     while nextlevel:                                                    *)
(*         thislevel = nextlevel; nextlevel = set()                        *)
(*         for v in thislevel:                                             *)
(*             if v not in seen:                                           *)
(*                 yield v; seen.add(v); nextlevel.update(G[v])            *)
(* The traversal reads the view only through iteration over the nodes and  *)
(* G[v], that is AntiGraph.__getitem__.                                    *)
(***************************************************************************)
\* "for v in G": take the next node of the store; start a search from it
\* unless it was already seen
CCOuter ==
    /\ cc.pc = "outer"
    /\ cc.todo # <<>>
    /\ LET v == Head(cc.todo) IN
         cc' = IF v \in cc.seen
               THEN [cc EXCEPT !.todo = Tail(@)]
               ELSE [cc EXCEPT !.todo = Tail(@), !.pc = "bfs", !.bseen = {},
                               !.thislevel = {}, !.nextlevel = {v}]
    /\ UNCHANGED <<order, adj, G, all_edge_dict, last, iters>>

\* "while nextlevel": the for loop over thislevel has ended
BfsLevel ==
    /\ cc.pc = "bfs"
    /\ cc.thislevel = {}
    /\ cc' = IF cc.nextlevel = {}
             THEN [cc EXCEPT !.pc = "outer", !.comps = Append(@, cc.bseen),
                             !.seen = @ \cup cc.bseen]
             ELSE [cc EXCEPT !.thislevel = cc.nextlevel, !.nextlevel = {}]
    /\ UNCHANGED <<order, adj, G, all_edge_dict, last, iters>>

\* one iteration of "for v in thislevel" (a set: any order)
BfsVisit ==
    /\ cc.pc = "bfs"
    /\ \E v \in cc.thislevel :
         cc' = IF v \in cc.bseen
               THEN [cc EXCEPT !.thislevel = @ \ {v}]
               ELSE [cc EXCEPT !.thislevel = @ \ {v}, !.bseen = @ \cup {v},
                               !.nextlevel = @ \cup DOMAIN getitem(v).val]
    /\ UNCHANGED <<order, adj, G, all_edge_dict, last, iters>>

\* the outer loop has run out of nodes
CCFinish ==
    /\ cc.pc = "outer"
    /\ cc.todo = <<>>
    /\ cc' = [cc EXCEPT !.pc = "done"]
    /\ UNCHANGED <<order, adj, G, all_edge_dict, last, iters>>

NextCC == CCOuter \/ BfsLevel \/ BfsVisit \/ CCFinish

SpecCC == InitDense /\ [][NextCC]_vars

(***************************************************************************)
(* The explicit dense graph G, read directly (networkx Graph on G's own    *)
(* adjacency): degree with a self-loop counted twice, and connected        *)
(* components by closure over G's edges.                                   *)
(***************************************************************************)
\* G.degree(n) = len(G.adj[n]) + (n in G.adj[n])
GDegree(n) == Cardinality(G[n]) + (IF n \in G[n] THEN 1 ELSE 0)

RECURSIVE Closure(_, _)
Closure(g, S) ==
    LET T == S \cup UNION {g[n] : n \in S}
    IN IF T = S THEN S ELSE Closure(g, T)

GComponents == {Closure(G, {v}) : v \in DOMAIN G}

(***************************************************************************)
(* Reference notions of the specification                                  *)
(***************************************************************************)
AllNodes == SeqToSet(order)

\* derived neighbor set: AllNodes - SparseSet(n) - {n}
D(n) == (AllNodes \ adj[n]) \ {n}

Symmetric == \A a, b \in DOMAIN adj : b \in adj[a] <=> a \in adj[b]

\* the node sequence a bulk degree request ranges over
Requested(nb) == IF nb.t = "None" THEN order ELSE nb.s

\* a degree request that names a node the store does not have
AbsentRequested(nb) ==
    \/ nb.t = "node" /\ nb.n \notin AllNodes
    \/ nb.t = "seq" /\ ~(SeqToSet(nb.s) \subseteq AllNodes)

\* the nodes of a requested list that the store has, in list order
RECURSIVE Present(_)
Present(q) ==
    IF q = <<>> THEN q
    ELSE IF Head(q) \in AllNodes THEN <<Head(q)>> \o Present(Tail(q))
    ELSE Present(Tail(q))

\* the complete results of adjacency() and of bulk degree over nb
FullAdjacency == [i \in DOMAIN order |-> <<order[i], D(order[i])>>]
FullDegree(nb) == [i \in DOMAIN Requested(nb) |->
                     <<Requested(nb)[i], Cardinality(D(Requested(nb)[i]))>>]

YieldsFromStart(it) ==
    /\ it.op = "neighbors" =>
          /\ IsInjective(it.out)
          /\ SeqToSet(it.out) \subseteq D(it.nb.n)
          /\ it.end \in {"-", "StopIteration"}
          /\ it.end = "StopIteration" => SeqToSet(it.out) = D(it.nb.n)
    /\ it.op = "adjacency" =>
          /\ IsPrefix(it.out, FullAdjacency)
          /\ it.end \in {"-", "StopIteration"}
          /\ it.end = "StopIteration" => it.out = FullAdjacency
    /\ (it.op = "degree" /\ it.nb.t \in {"None", "seq"}) =>
          /\ IsPrefix(it.out, FullDegree(it.nb))
          /\ it.end \in {"-", "StopIteration"}
          /\ it.end = "StopIteration" => it.out = FullDegree(it.nb)

AllYieldFromStart == \A c \in Callers : YieldsFromStart(iters[c])

Firsts(items) == [i \in DOMAIN items |-> items[i][1]]
Seconds(items) == [i \in DOMAIN items |-> items[i][2]]

(***************************************************************************)
(* C1.  For every store, symmetric or not, and every node n of the store,  *)
(* neighbors(n) produces exactly the elements of D(n), each once; the key  *)
(* set of view[n] is D(n); adjacency() emits one pair per node of the      *)
(* universe, in store order, pairing n with D(n).  A node with an empty    *)
(* sparse set gets AllNodes - {n}.                                         *)
(***************************************************************************)
C1_NeighborQueriesAgree ==
    /\ (last.op = "neighbors" /\ last.nb.n \in AllNodes) =>
          /\ last.raised = "none" /\ last.end = "StopIteration"
          /\ SeqToSet(last.items) = D(last.nb.n)
          /\ IsInjective(last.items)
          /\ adj[last.nb.n] = {} => SeqToSet(last.items) = AllNodes \ {last.nb.n}
    /\ (last.op = "getitem" /\ last.nb.n \in AllNodes) =>
          /\ last.raised = "none" /\ last.ret = "dict"
          /\ DOMAIN last.val = D(last.nb.n)
          /\ adj[last.nb.n] = {} => DOMAIN last.val = AllNodes \ {last.nb.n}
    /\ last.op = "adjacency" =>
          /\ last.raised = "none" /\ last.end = "StopIteration"
          /\ Firsts(last.items) = order
          /\ \A i \in DOMAIN last.items : last.items[i][2] = D(last.items[i][1])

C1_Witness ==
    /\ last.op = "getitem" /\ last.nb.n \in AllNodes
    /\ ~Symmetric
    /\ adj[last.nb.n] # {}
    /\ last.ret = "dict" /\ DOMAIN last.val # {}

(***************************************************************************)
(* C2 as worded.  For the view A over complement(G), neighbors(n) equals   *)
(* AllNodes - {n} - trueAdjacency(n), trueAdjacency(n) = G[n] read from    *)
(* the explicit dense graph.                                               *)
(***************************************************************************)
C2_AsWorded ==
    (last.op = "neighbors" /\ last.nb.n \in AllNodes) =>
        SeqToSet(last.items) = (AllNodes \ {last.nb.n}) \ G[last.nb.n]

(***************************************************************************)
(* C2 amended.  neighbors(n) on the view over complement(G) produces       *)
(* exactly trueAdjacency(n) - {n}: the neighbours n has in the dense graph *)
(* G (G[n] itself when n has no self-loop), each once; it is the           *)
(* complement of the stored set, AllNodes - {n} - complement(G)[n].        *)
(***************************************************************************)
C2_NeighborsAreTrueAdjacency ==
    (last.op = "neighbors" /\ last.nb.n \in AllNodes) =>
        /\ last.raised = "none" /\ last.end = "StopIteration"
        /\ SeqToSet(last.items) = G[last.nb.n] \ {last.nb.n}
        /\ IsInjective(last.items)
        /\ last.nb.n \notin G[last.nb.n] => SeqToSet(last.items) = G[last.nb.n]

C2_Witness ==
    /\ last.op = "neighbors" /\ last.nb.n \in AllNodes
    /\ IsSimple(G)
    /\ G[last.nb.n] # {}
    /\ adj[last.nb.n] # {}
    /\ SeqToSet(last.items) = G[last.nb.n]

(***************************************************************************)
(* C3 as worded.  For every undirected G, self-loops permitted and counted *)
(* twice in G.degree, and A over complement(G): A.degree(n) = G.degree(n)  *)
(* for every node n.                                                       *)
(***************************************************************************)
C3_AsWorded ==
    (last.op = "degree" /\ last.nb.t = "node" /\ last.nb.n \in AllNodes
        /\ last.w = NoWeight) =>
        last.val = GDegree(last.nb.n)

(***************************************************************************)
(* C3 amended.  A.degree(n) is the number of neighbours of n in G other    *)
(* than n itself: it equals G.degree(n) for every node without a           *)
(* self-loop (so for every node of a simple G), and is G.degree(n) - 2 for *)
(* a node that has a self-loop in G.                                       *)
(***************************************************************************)
C3_DegreeEquivalence ==
    (last.op = "degree" /\ last.nb.t = "node" /\ last.nb.n \in AllNodes
        /\ last.w = NoWeight) =>
        /\ last.raised = "none" /\ last.ret = "int"
        /\ last.val = Cardinality(G[last.nb.n] \ {last.nb.n})
        /\ last.nb.n \notin G[last.nb.n] => last.val = GDegree(last.nb.n)
        /\ last.nb.n \in G[last.nb.n] => last.val = GDegree(last.nb.n) - 2

C3_Witness ==
    /\ last.op = "degree" /\ last.nb.t = "node" /\ last.nb.n \in AllNodes
    /\ last.w = NoWeight
    /\ last.nb.n \notin G[last.nb.n]
    /\ ~IsSimple(G)
    /\ last.val = GDegree(last.nb.n) /\ last.val >= 2

(***************************************************************************)
(* C4.  For every store and every request, single-node or bulk, the result *)
(* of degree with weight='weight' and with any other weight key is the     *)
(* result degree gives with no weight key; the shared record stays         *)
(* {weight: 1} through every sequence of queries.                          *)
(***************************************************************************)
C4_WeightedEqualsUnweighted ==
    /\ all_edge_dict = [weight |-> 1]
    /\ last.op = "degree" =>
          LET r == degree(last.nb, NoWeight) IN
          /\ last.raised = r.raised
          /\ last.ret = r.ret
          /\ r.ret = "int" => last.val = r.val
          /\ r.ret = "gen" =>
                [items |-> last.items, end |-> last.end] \in Drains(r.val)

C4_Witness ==
    /\ last.op = "degree" /\ last.w = "other" /\ last.ret = "gen"
    /\ Len(last.items) >= 2
    /\ \E i \in DOMAIN last.items : last.items[i][2] >= 2

C6_ConnectivityTransfer ==
    /\ \A i \in DOMAIN cc.comps : cc.comps[i] \in GComponents
    /\ cc.pc = "done" =>
          /\ SeqToSet(cc.comps) = GComponents
          /\ IsInjective(cc.comps)

C6_Witness ==
    /\ cc.pc = "done"
    /\ IsSimple(G)
    /\ Len(cc.comps) >= 2
    /\ \E i \in DOMAIN cc.comps : Cardinality(cc.comps[i]) >= 2

(***************************************************************************)
(* C7.  neighbors(n) for n not a key of the store raises NetworkXError at  *)
(* the call and returns no sequence; for a node of the store it never      *)
(* raises, and a node with an empty sparse set yields AllNodes - {n}.      *)
(***************************************************************************)
C7_UnknownNodeRaises ==
    last.op = "neighbors" =>
        /\ last.nb.n \notin AllNodes =>
              last.raised = "NetworkXError" /\ last.ret = "-" /\ last.items = <<>>
        /\ last.nb.n \in AllNodes =>
              last.raised = "none" /\ last.ret = "iter" /\ last.end = "StopIteration"
        /\ (last.nb.n \in AllNodes /\ adj[last.nb.n] = {}) =>
              SeqToSet(last.items) = AllNodes \ {last.nb.n}

C7_Witness ==
    /\ last.op = "neighbors" /\ last.nb.n \notin AllNodes
    /\ last.raised = "NetworkXError"
    /\ \E m \in AllNodes : D(m) = {}

(***************************************************************************)
(* C8 as worded.  view[n], degree(n) and bulk degree over a list that      *)
(* contains a node absent from the store all fail with NodeNotFound        *)
(* (NetworkXError) at the call: no result object is returned first, no     *)
(* pairs are emitted, the absent node is not silently left out.            *)
(***************************************************************************)
C8_AsWorded ==
    /\ (last.op = "getitem" /\ last.nb.n \notin AllNodes) =>
          last.raised = "NetworkXError"
    /\ (last.op = "degree" /\ AbsentRequested(last.nb)) =>
          last.raised = "NetworkXError" /\ last.ret = "-" /\ last.items = <<>>

(***************************************************************************)
(* C8 amended.  view[n] for an absent n fails at the call, with the plain  *)
(* KeyError of the lookup and not NetworkXError, and returns nothing.      *)
(* degree(n) for an absent, non-iterable n does not fail at the call: it   *)
(* returns a lazy sequence, whose first next() raises NetworkXError before *)
(* any pair is emitted.  Bulk degree over a list containing absent nodes   *)
(* never fails: it leaves the absent nodes out and emits the pairs of the  *)
(* present ones, in list order, with their full degrees.                   *)
(***************************************************************************)
C8_AbsentNodeOutcomes ==
    /\ (last.op = "getitem" /\ last.nb.n \notin AllNodes) =>
          last.raised = "KeyError" /\ last.ret = "-"
    /\ (last.op = "degree" /\ last.nb.t = "node" /\ last.nb.n \notin AllNodes) =>
          /\ last.raised = "none" /\ last.ret = "gen"
          /\ last.items = <<>> /\ last.end = "NetworkXError"
    /\ (last.op = "degree" /\ last.nb.t = "seq" /\ AbsentRequested(last.nb)) =>
          /\ last.raised = "none" /\ last.ret = "gen" /\ last.end = "StopIteration"
          /\ Firsts(last.items) = Present(last.nb.s)
          /\ \A i \in DOMAIN last.items :
                last.items[i][2] = Cardinality(D(last.items[i][1]))

C8_Witness ==
    /\ last.op = "degree" /\ last.nb.t = "seq" /\ Len(last.nb.s) = 2
    /\ last.nb.s[1] \notin AllNodes /\ last.nb.s[2] \in AllNodes
    /\ Len(last.items) = 1 /\ last.items[1][2] >= 1

(***************************************************************************)
(* C9.  On an unchanged store every call of neighbors(n), bulk degree or   *)
(* adjacency() hands out a sequence of its own that yields the complete    *)
(* result from its first element: whatever the two callers have opened,    *)
(* dropped and consumed so far, what each held sequence has produced is a  *)
(* prefix of the full result of its call, and the full result once it has  *)
(* ended; and a step that changes one caller's sequence leaves the other   *)
(* caller's sequence as it was.                                            *)
(***************************************************************************)
C9_RestartablePerCall ==
    [][/\ AllYieldFromStart'
       /\ \A c, d \in Callers :
             (c # d /\ iters'[c] # iters[c]) => iters'[d] = iters[d]
       /\ \A c \in Callers :
             (iters[c].op = "none" /\ iters'[c].op # "none") => iters'[c].out = <<>>
       /\ UNCHANGED <<order, adj, all_edge_dict>>]_vars

C9_Witness ==
    /\ iters["a"].op = "degree" /\ iters["b"].op = "degree"
    /\ iters["a"].nb = NoneNb /\ iters["b"].nb = NoneNb
    /\ iters["a"].end = "StopIteration" /\ Len(iters["a"].out) = MaxNodes
    /\ iters["b"].end = "-" /\ Len(iters["b"].out) = 1

(***************************************************************************)
(* C10.  For every store, asymmetric ones and ones where a node lists      *)
(* itself included, no node is in its own derived neighbor set in any of   *)
(* the three branches of degree; so the "+ (n in nbrs)" term is 0 and      *)
(* every degree reported, single or bulk, weighted or not, is exactly      *)
(* |AllNodes - SparseSet(n) - {n}|.                                        *)
(***************************************************************************)
C10_SelfLoopTermDead ==
    /\ \A n \in AllNodes :
          /\ n \notin DOMAIN nbrsSingle(n)
          /\ n \notin DOMAIN nbrsAll(n)
          /\ \A q \in {order, <<n>>} : n \notin DOMAIN nbrsBunch(n, q)
    /\ (last.op = "degree" /\ last.ret = "int") =>
          last.val = Cardinality(D(last.nb.n))
    /\ (last.op = "degree" /\ last.ret = "gen") =>
          \A i \in DOMAIN last.items :
              last.items[i][2] = Cardinality(D(last.items[i][1]))

C10_Witness ==
    /\ last.op = "degree" /\ last.nb.t = "None" /\ last.w = "weight"
    /\ ~Symmetric
    /\ \E n \in AllNodes : n \in adj[n]
    /\ Len(last.items) = MaxNodes
    /\ \E i \in DOMAIN last.items :
          last.items[i][1] \in adj[last.items[i][1]] /\ last.items[i][2] >= 1

====
